---- MODULE Spec2Model ----
(***************************************************************************)
(* Model of appose/environment.py: the Builder (directive dispatch over    *)
(* build handlers, configuration accumulation, build) and the Environment  *)
(* (executable resolution and launch-argument assembly).                   *)
(*                                                                         *)
(* Reading of the source.  Methods that are valid Python (Environment.*,   *)
(* Builder.__init__, subscribe_*, log_debug, use_system_path, build, base, *)
(* conda, java) are modelled with Python semantics: a bare name that is    *)
(* not bound raises NameError, an attribute never assigned raises          *)
(* AttributeError.  The methods written in transliterated Java (scheme,    *)
(* channel, include) are modelled per overload, "this" being self and a    *)
(* bare field name being the Builder's field.                              *)
(***************************************************************************)
EXTENDS Integers, Sequences, FiniteSets, TLC

\* ------------------------------------------------------------------ bounds
MaxHandlers == 2
MaxClassPath == 4
MaxPathLen == 3
MaxExes == 2

\* ------------------------------------------------------------- vocabulary
None == "<None>"
Unset == "<unset>"
UnsetDir == <<Unset>>
NoEnv == [base |-> <<>>, use_system_path |-> FALSE, made |-> FALSE]
NoSpec == [cwd |-> <<>>, args |-> <<>>, launched |-> FALSE]
NoServiceCall == [exes |-> <<>>, args |-> <<>>, reached |-> FALSE]
NoFindExeCall == [dirs |-> <<>>, exes |-> <<>>, reached |-> FALSE]

Contents == {"cowsay", "openjdk"}
Schemes == {"conda", "pypi"}
Names == {"bioconda"}
Locations == {"conda", "pypi"}
Subscribers == {"s1"}
Cwd == "/cwd/"
BaseDirs == {<<"/env">>, <<"rel">>}

\* A build handler is characterised by the directives it accepts.
IncludeDirectives == (Contents \cup {"myContent"}) \X (Schemes \cup {None, "myScheme"})
ChannelDirectives == Names \X (Locations \cup {None})

HandlerKinds ==
    { [inc |-> {}, chan |-> {<<"bioconda", None>>}],
      [inc |-> {<<"cowsay", "pypi">>}, chan |-> {}],
      [inc |-> IncludeDirectives, chan |-> ChannelDirectives] }

RECURSIVE SeqsUpTo(_, _)
SeqsUpTo(S, n) ==
    IF n = 0 THEN {<<>>}
    ELSE LET shorter == SeqsUpTo(S, n - 1)
         IN  shorter \cup {Append(q, x) : q \in {r \in shorter : Len(r) = n - 1}, x \in S}

VARIABLES
    \* Builder fields
    handlers, scheme, include_system_path, base_dir, conda_environment_yaml,
    java_vendor, java_version,
    progress_subscribers, output_subscribers, error_subscribers,
    \* what the handlers saw during the last call, in call order
    observed,
    \* notifications delivered to subscribers during the last call
    delivered,
    \* subscribers on which a subscribe_* call has been made
    subscribe_calls,
    \* last call, its outcome, the Environment it returned
    last_call, ret, env,
    \* Environment side: process environment, file system, launch hand-over
    PATH, fs, service_call, find_exe_call, launch, java_call

builderFields ==
    <<handlers, scheme, include_system_path, base_dir, conda_environment_yaml,
      java_vendor, java_version,
      progress_subscribers, output_subscribers, error_subscribers>>

envSide == <<PATH, fs, service_call, find_exe_call, launch, java_call>>

vars ==
    <<handlers, scheme, include_system_path, base_dir, conda_environment_yaml,
      java_vendor, java_version,
      progress_subscribers, output_subscribers, error_subscribers,
      observed, delivered, subscribe_calls, last_call, ret, env,
      PATH, fs, service_call, find_exe_call, launch, java_call>>

NoDelivery == [progress |-> <<>>, output |-> <<>>, error |-> <<>>]

\* ------------------------------------------------------- build handlers
\* BuildHandler.include / BuildHandler.channel: accept or decline.
HandlerInclude(h, content, sch) == <<content, sch>> \in h.inc
HandlerChannel(h, name, location) == <<name, location>> \in h.chan

HandlerCall(h, op, a, b) ==
    IF op = "include" THEN HandlerInclude(h, a, b) ELSE HandlerChannel(h, a, b)

Seen(i, op, a, b, acc) == [h |-> i, op |-> op, a |-> a, b |-> b, accepted |-> acc]

\* handle(fn): try the handlers in list order, stop at the first that accepts.
RECURSIVE HandleFrom(_, _, _, _, _, _)
HandleFrom(hs, i, op, a, b, log) ==
    IF i > Len(hs) THEN [ok |-> FALSE, log |-> log]
    ELSE LET acc == HandlerCall(hs[i], op, a, b)
             log2 == Append(log, Seen(i, op, a, b, acc))
         IN  IF acc THEN [ok |-> TRUE, log |-> log2]
             ELSE HandleFrom(hs, i + 1, op, a, b, log2)

handle(hs, op, a, b) == HandleFrom(hs, 1, op, a, b, <<>>)

\* ------------------------------------------------------------ Environment
IsAbsolute(p) == p # <<>> /\ Head(p) \in {"/env", "/usr", Cwd}

\* Path(base).absolute()
Absolute(p) == IF IsAbsolute(p) THEN p ELSE <<Cwd>> \o p

\* Environment.__init__
Environment(base, use_sys) ==
    [base |-> Absolute(base), use_system_path |-> use_sys, made |-> TRUE]

\* ---------------------------------------------------------------- Builder
BuilderInit ==
    /\ handlers \in SeqsUpTo(HandlerKinds, MaxHandlers)
    /\ scheme = "conda"
    /\ include_system_path = FALSE
    /\ base_dir = UnsetDir
    /\ conda_environment_yaml = Unset
    /\ java_vendor = Unset
    /\ java_version = Unset
    /\ progress_subscribers = <<>>
    /\ output_subscribers = <<>>
    /\ error_subscribers = <<>>
    /\ observed = <<>>
    /\ delivered = NoDelivery
    /\ subscribe_calls = {}
    /\ last_call = [op |-> "init", a |-> None, b |-> None]
    /\ ret = "self"
    /\ env = NoEnv

Call(op, a, b) == last_call' = [op |-> op, a |-> a, b |-> b]

\* subscribe_progress: the bare name progress_subscribers is unbound.
SubscribeProgress(s) ==
    /\ Call("subscribe_progress", s, None)
    /\ subscribe_calls' = subscribe_calls \cup {<<"progress", s>>}
    /\ ret' = "NameError"
    /\ observed' = <<>> /\ delivered' = NoDelivery /\ env' = NoEnv
    /\ UNCHANGED <<builderFields, envSide>>

\* subscribe_output: the bare name output_subscribers is unbound.
SubscribeOutput(s) ==
    /\ Call("subscribe_output", s, None)
    /\ subscribe_calls' = subscribe_calls \cup {<<"output", s>>}
    /\ ret' = "NameError"
    /\ observed' = <<>> /\ delivered' = NoDelivery /\ env' = NoEnv
    /\ UNCHANGED <<builderFields, envSide>>

\* subscribe_error: the bare name error_subscribers is unbound.
SubscribeError(s) ==
    /\ Call("subscribe_error", s, None)
    /\ subscribe_calls' = subscribe_calls \cup {<<"error", s>>}
    /\ ret' = "NameError"
    /\ observed' = <<>> /\ delivered' = NoDelivery /\ env' = NoEnv
    /\ UNCHANGED <<builderFields, envSide>>

\* log_debug: the bare name subscribeProgress is unbound.
LogDebug ==
    /\ Call("log_debug", None, None)
    /\ ret' = "NameError"
    /\ observed' = <<>> /\ delivered' = NoDelivery /\ env' = NoEnv
    /\ UNCHANGED <<builderFields, envSide, subscribe_calls>>

UseSystemPath ==
    /\ Call("use_system_path", None, None)
    /\ include_system_path' = TRUE
    /\ ret' = "self"
    /\ observed' = <<>> /\ delivered' = NoDelivery /\ env' = NoEnv
    /\ UNCHANGED <<handlers, scheme, base_dir, conda_environment_yaml,
                   java_vendor, java_version, progress_subscribers,
                   output_subscribers, error_subscribers, envSide, subscribe_calls>>

SetScheme(s) ==
    /\ Call("scheme", s, None)
    /\ scheme' = s
    /\ ret' = "self"
    /\ observed' = <<>> /\ delivered' = NoDelivery /\ env' = NoEnv
    /\ UNCHANGED <<handlers, include_system_path, base_dir, conda_environment_yaml,
                   java_vendor, java_version, progress_subscribers,
                   output_subscribers, error_subscribers, envSide, subscribe_calls>>

\* The dispatch shared by channel and include: outcome of handing the
\* directive to handle(), ValueError when no handler accepted.
Dispatch(op, a, b) ==
    LET r == handle(handlers, op, a, b)
    IN  /\ observed' = r.log
        /\ ret' = IF r.ok THEN "self" ELSE "ValueError"
        /\ delivered' = NoDelivery /\ env' = NoEnv
        /\ UNCHANGED <<builderFields, envSide, subscribe_calls>>

\* channel(name, location)
Channel(name, location) ==
    /\ Call("channel", name, location)
    /\ Dispatch("channel", name, location)

\* channel(name): return channel(name, scheme)
ChannelName(name) ==
    /\ Call("channel_name", name, None)
    /\ Dispatch("channel", name, scheme)

\* include(content, scheme = None)
IncludeAll(content, sch) ==
    /\ Call("include", content, sch)
    /\ observed' = [i \in 1..Len(handlers) |->
                       Seen(i, "include", content, sch,
                            HandlerInclude(handlers[i], content, sch))]
    /\ ret' = IF \E i \in 1..Len(handlers) : HandlerInclude(handlers[i], content, sch)
              THEN "self" ELSE "ValueError"
    /\ delivered' = NoDelivery /\ env' = NoEnv
    /\ UNCHANGED <<builderFields, envSide, subscribe_calls>>

IncludeSetsScheme(content, sch) ==
    /\ Call("include", content, sch)
    /\ LET r == handle(handlers, "include", content, sch)
       IN  /\ observed' = r.log
           /\ ret' = IF r.ok THEN "self" ELSE "ValueError"
    /\ scheme' = sch
    /\ delivered' = NoDelivery /\ env' = NoEnv
    /\ UNCHANGED <<handlers, include_system_path, base_dir, conda_environment_yaml,
                   java_vendor, java_version, progress_subscribers,
                   output_subscribers, error_subscribers, envSide, subscribe_calls>>

Include(content, sch) ==
    /\ Call("include", content, sch)
    /\ Dispatch("include", content, sch)

\* build(): every handler is handed the placeholder directive, then
\* Environment(self.base_dir, self.system_path) is evaluated left to right;
\* base_dir exists only after base(), system_path is never assigned.
BuildLenient(bd, isp) ==
    [ret |-> "Environment",
     env |-> Environment(IF bd = UnsetDir THEN <<>> ELSE bd, isp)]

BuildOutcome(bd, isp) ==
    IF bd = UnsetDir THEN [ret |-> "AttributeError: base_dir", env |-> NoEnv]
    ELSE [ret |-> "AttributeError: system_path", env |-> NoEnv]

Build ==
    /\ Call("build", None, None)
    /\ observed' = [i \in 1..Len(handlers) |->
                       Seen(i, "include", "myContent", "myScheme",
                            HandlerInclude(handlers[i], "myContent", "myScheme"))]
    /\ ret' = BuildOutcome(base_dir, include_system_path).ret
    /\ env' = BuildOutcome(base_dir, include_system_path).env
    /\ delivered' = NoDelivery
    /\ UNCHANGED <<builderFields, envSide, subscribe_calls>>

Base(directory) ==
    /\ Call("base", directory, None)
    /\ base_dir' = directory
    /\ ret' = "self"
    /\ observed' = <<>> /\ delivered' = NoDelivery /\ env' = NoEnv
    /\ UNCHANGED <<handlers, scheme, include_system_path, conda_environment_yaml,
                   java_vendor, java_version, progress_subscribers,
                   output_subscribers, error_subscribers, envSide, subscribe_calls>>

Conda(environment_yaml) ==
    /\ Call("conda", environment_yaml, None)
    /\ conda_environment_yaml' = environment_yaml
    /\ ret' = "self"
    /\ observed' = <<>> /\ delivered' = NoDelivery /\ env' = NoEnv
    /\ UNCHANGED <<handlers, scheme, include_system_path, base_dir,
                   java_vendor, java_version, progress_subscribers,
                   output_subscribers, error_subscribers, envSide, subscribe_calls>>

BuilderJava(vendor, version) ==
    /\ Call("java", vendor, version)
    /\ java_vendor' = IF vendor # None THEN vendor ELSE java_vendor
    /\ java_version' = IF version # None THEN version ELSE java_version
    /\ ret' = "self"
    /\ observed' = <<>> /\ delivered' = NoDelivery /\ env' = NoEnv
    /\ UNCHANGED <<handlers, scheme, include_system_path, base_dir,
                   conda_environment_yaml, progress_subscribers,
                   output_subscribers, error_subscribers, envSide, subscribe_calls>>

\* ------------------------------------------------- Environment operations
PathSep == ":"
PathTokens == {"/env", "/usr", PathSep}
ExeNames == {"python", "python3"}
ClassPathElements == {"a", "b", "c"}

PythonExes == <<"python", "python3", "python.exe", "bin/python", "bin/python.exe">>
JavaExes == <<"java", "java.exe", "bin/java", "bin/java.exe",
              "jre/bin/java", "jre/bin/java.exe">>

PythonFiles == {<<"/env", "python">>, <<"/env", "python3">>,
                <<"/usr", "python">>, <<Cwd, "python3">>}
JavaFiles == {<<"/env", "bin/java">>}

NoneSeq == [some |-> FALSE, v |-> <<>>]
SomeSeq(q) == [some |-> TRUE, v |-> q]

\* str.split(sep): the text between separators, empty pieces included.
RECURSIVE SplitAcc(_, _, _, _)
SplitAcc(s, sep, cur, out) ==
    IF s = <<>> THEN Append(out, cur)
    ELSE IF Head(s) = sep THEN SplitAcc(Tail(s), sep, <<>>, Append(out, cur))
    ELSE SplitAcc(Tail(s), sep, Append(cur, Head(s)), out)

Split(s, sep) == SplitAcc(s, sep, <<>>, <<>>)

\* sep.join(items), each item one piece of text.
RECURSIVE Join(_, _)
Join(items, sep) ==
    IF items = <<>> THEN <<>>
    ELSE IF Len(items) = 1 THEN <<Head(items)>>
    ELSE <<Head(items), sep>> \o Join(Tail(items), sep)

\* Path(d) / exe
JoinPath(d, exe) == Append(d, exe)

\* the file exists and is executable
can_execute(p) == Absolute(p) \in fs

NotFound == [found |-> FALSE, path |-> <<>>]

\* find_exe(dirs, exes): directories in order, within each the candidates in
\* order; the first path that exists and is executable.
RECURSIVE FindExeFrom(_, _, _, _)
FindExeFrom(dirs, exes, i, j) ==
    IF i > Len(dirs) THEN NotFound
    ELSE IF j > Len(exes) THEN FindExeFrom(dirs, exes, i + 1, 1)
    ELSE IF can_execute(JoinPath(dirs[i], exes[j]))
         THEN [found |-> TRUE, path |-> JoinPath(dirs[i], exes[j])]
         ELSE FindExeFrom(dirs, exes, i, j + 1)

find_exe(dirs, exes) == FindExeFrom(dirs, exes, 1, 1)

\* Service(cwd, args): the launch specification handed to the process launcher.
Service(cwd, args) == [cwd |-> cwd, args |-> args, launched |-> TRUE]

\* service(): the directories handed to find_exe.
SearchDirsBaseToo(e) ==
    IF e.use_system_path THEN Split(PATH, PathSep) \o <<e.base>> ELSE <<e.base>>

SearchDirs(e) ==
    IF e.use_system_path THEN Split(PATH, PathSep) ELSE <<e.base>>

Reverse(q) == [i \in 1..Len(q) |-> q[Len(q) + 1 - i]]

\* service(exes, *args): outcome, find_exe call made, launch handed over.
ServiceOutcomeLastCandidate(e, exes, args) ==
    IF exes = <<>>
    THEN [ret |-> "ValueError", find |-> NoFindExeCall, launch |-> NoSpec]
    ELSE LET dirs == SearchDirs(e)
             exe_file == find_exe(dirs, Reverse(exes))
             call == [dirs |-> dirs, exes |-> Reverse(exes), reached |-> TRUE]
         IN  IF ~exe_file.found
             THEN [ret |-> "ValueError", find |-> call, launch |-> NoSpec]
             ELSE [ret |-> "Service", find |-> call,
                   launch |-> Service(e.base, <<exe_file.path>> \o args)]

ServiceOutcomeUnchecked(e, exes, args) ==
    LET dirs == SearchDirs(e)
        exe_file == find_exe(dirs, exes)
        call == [dirs |-> dirs, exes |-> exes, reached |-> TRUE]
    IN  [ret |-> "Service", find |-> call,
         launch |-> Service(e.base, <<exe_file.path>> \o args)]

ServiceOutcome(e, exes, args) ==
    IF exes = <<>>
    THEN [ret |-> "ValueError", find |-> NoFindExeCall, launch |-> NoSpec]
    ELSE LET dirs == SearchDirs(e)
             exe_file == find_exe(dirs, exes)
             call == [dirs |-> dirs, exes |-> exes, reached |-> TRUE]
         IN  IF ~exe_file.found
             THEN [ret |-> "ValueError", find |-> call, launch |-> NoSpec]
             ELSE [ret |-> "Service", find |-> call,
                   launch |-> Service(e.base, <<exe_file.path>> \o args)]

DoService(op, exes, args) ==
    LET r == ServiceOutcome(env, exes, args)
    IN  /\ last_call' = [op |-> op, a |-> None, b |-> None]
        /\ service_call' = [exes |-> exes, args |-> args, reached |-> TRUE]
        /\ find_exe_call' = r.find
        /\ launch' = r.launch
        /\ ret' = r.ret
        /\ UNCHANGED <<builderFields, observed, delivered, subscribe_calls,
                       env, PATH, fs>>

\* Environment.service(exes, *args)
EnvService(exes, args) == DoService("service", exes, args)

\* Environment.python()
EnvPython ==
    DoService("python", PythonExes,
              <<"-c", "import appose.python_worker; appose.python_worker.main()">>)

\* java(): the classpath dict, one key per element in insertion order.
RECURSIVE CpDict(_, _)
CpDict(class_path, cp) ==
    IF class_path = <<>> THEN cp
    ELSE CpDict(Tail(class_path),
                IF \E k \in 1..Len(cp) : cp[k] = Head(class_path)
                THEN cp ELSE Append(cp, Head(class_path)))

\* java(): the arguments handed to service().
JavaArgsNoDedup(main_class, class_path, jvm_args) ==
    <<"-cp", Join(class_path.v, PathSep)>>
        \o (IF jvm_args.some THEN jvm_args.v ELSE <<>>)
        \o <<main_class>>

JavaArgs(main_class, class_path, jvm_args) ==
    LET cp == IF class_path.some THEN CpDict(class_path.v, <<>>) ELSE <<>>
    IN  <<"-cp", Join(cp, PathSep)>>
            \o (IF jvm_args.some THEN jvm_args.v ELSE <<>>)
            \o <<main_class>>

\* Environment.java(main_class, class_path, jvm_args)
EnvJava(main_class, class_path, jvm_args) ==
    /\ DoService("java", JavaExes, JavaArgs(main_class, class_path, jvm_args))
    /\ java_call' = [main_class |-> main_class, class_path |-> class_path,
                     jvm_args |-> jvm_args]

\* Environment.groovy(class_path, jvm_args)
EnvGroovy(class_path, jvm_args) ==
    EnvJava("org.apposed.appose.GroovyWorker", class_path, jvm_args)

BuilderIdle ==
    /\ handlers = <<>>
    /\ scheme = "conda"
    /\ include_system_path = FALSE
    /\ base_dir = UnsetDir
    /\ conda_environment_yaml = Unset
    /\ java_vendor = Unset
    /\ java_version = Unset
    /\ progress_subscribers = <<>>
    /\ output_subscribers = <<>>
    /\ error_subscribers = <<>>
    /\ observed = <<>>
    /\ delivered = NoDelivery
    /\ subscribe_calls = {}
    /\ last_call = [op |-> "init", a |-> None, b |-> None]
    /\ ret = "Environment"

NoJavaCall == [main_class |-> None, class_path |-> NoneSeq, jvm_args |-> NoneSeq]

\* An Environment constructed directly over a directory, in some process
\* environment and file system.
InitService ==
    /\ BuilderIdle
    /\ \E b \in BaseDirs, u \in BOOLEAN : env = Environment(b, u)
    /\ PATH \in SeqsUpTo(PathTokens, MaxPathLen)
    /\ fs \in SUBSET PythonFiles
    /\ service_call = NoServiceCall
    /\ find_exe_call = NoFindExeCall
    /\ launch = NoSpec
    /\ java_call = NoJavaCall

NextService ==
    \/ \E exes \in SeqsUpTo(ExeNames, MaxExes), args \in {<<>>, <<"-V", "-q">>} :
           EnvService(exes, args) /\ UNCHANGED java_call
    \/ EnvPython /\ UNCHANGED java_call

SpecService == InitService /\ [][NextService]_vars

InitJava ==
    /\ BuilderIdle
    /\ \E u \in BOOLEAN : env = Environment(<<"/env">>, u)
    /\ PATH = <<"/usr">>
    /\ fs = JavaFiles
    /\ service_call = NoServiceCall
    /\ find_exe_call = NoFindExeCall
    /\ launch = NoSpec
    /\ java_call = NoJavaCall

OptionalClassPaths ==
    {NoneSeq} \cup {SomeSeq(q) : q \in SeqsUpTo(ClassPathElements, MaxClassPath)}
OptionalJvmArgs == {NoneSeq, SomeSeq(<<"-Xmx4g", "-ea">>)}

NextJava ==
    \/ \E cp \in OptionalClassPaths, ja \in OptionalJvmArgs : EnvJava("Main", cp, ja)
    \/ \E cp \in {NoneSeq, SomeSeq(<<"a", "a">>)}, ja \in OptionalJvmArgs : EnvGroovy(cp, ja)

SpecJava == InitJava /\ [][NextJava]_vars

EnvSideIdle ==
    /\ PATH = <<>>
    /\ fs = {}
    /\ service_call = NoServiceCall
    /\ find_exe_call = NoFindExeCall
    /\ launch = NoSpec
    /\ java_call = NoJavaCall

Init == BuilderInit /\ EnvSideIdle

Next ==
    \/ \E s \in Subscribers : SubscribeProgress(s)
    \/ \E s \in Subscribers : SubscribeOutput(s)
    \/ \E s \in Subscribers : SubscribeError(s)
    \/ LogDebug
    \/ UseSystemPath
    \/ \E s \in Schemes : SetScheme(s)
    \/ \E n \in Names, l \in Locations \cup {None} : Channel(n, l)
    \/ \E n \in Names : ChannelName(n)
    \/ \E c \in Contents, s \in Schemes \cup {None} : Include(c, s)
    \/ Build
    \/ \E d \in BaseDirs : Base(d)
    \/ \E y \in {"environment.yml"} : Conda(y)
    \/ \E v \in {None, "zulu"}, n \in {"17"} : BuilderJava(v, n)

Spec == Init /\ [][Next]_vars

\* ================================================================ claims
Errors == {"ValueError", "NameError", "AttributeError: base_dir",
           "AttributeError: system_path"}

Accepting(c, sch) == {i \in 1..Len(handlers) : HandlerInclude(handlers[i], c, sch)}

C2_UnsupportedLeavesBuilderUnchanged ==
    [][ (last_call'.op = "include"
            /\ \A i \in 1..Len(handlers) :
                  ~HandlerInclude(handlers[i], last_call'.a, last_call'.b))
        => (ret' = "ValueError" /\ UNCHANGED builderFields) ]_vars

C2_Witness ==
    /\ last_call.op = "include"
    /\ ret = "ValueError"
    /\ Len(handlers) = 2
    /\ Len(observed) = 2
    /\ base_dir # UnsetDir
    /\ include_system_path
    /\ scheme = "pypi"

\* C3: build() after base() returns an Environment whose base is the
\* directory last given to base() and whose use_system_path flag is true
\* exactly when use_system_path() was called.
C3_BuildReturnsEnvironment ==
    (last_call.op = "build" /\ base_dir # UnsetDir) =>
        /\ ret = "Environment"
        /\ env.made
        /\ env.base = base_dir
        /\ env.use_system_path = include_system_path

\* C4: build() on a Builder on which base() was never called fails with an
\* error raised at that call and returns no Environment.
C4_BuildRequiresBase ==
    (last_call.op = "build" /\ base_dir = UnsetDir) =>
        (ret \in Errors /\ ~env.made)

C4_Witness ==
    /\ last_call.op = "build"
    /\ base_dir = UnsetDir
    /\ ret = "AttributeError: base_dir"
    /\ include_system_path

\* C5: channel(name) dispatches the channel directive with location absent,
\* so on a Builder whose single handler accepts only channel("bioconda", None)
\* channel("bioconda") succeeds, and include("cowsay", "pypi") raises the
\* unsupported-directive error.
C5_ChannelNameLocationAbsent ==
    /\ last_call.op = "channel_name" =>
           /\ \A k \in 1..Len(observed) : observed[k].b = None
           /\ (handlers = <<[inc |-> {}, chan |-> {<<"bioconda", None>>}]>>
                  /\ last_call.a = "bioconda") => ret = "self"
    /\ (last_call.op = "include"
           /\ handlers = <<[inc |-> {}, chan |-> {<<"bioconda", None>>}]>>
           /\ last_call.a = "cowsay" /\ last_call.b = "pypi") => ret = "ValueError"

Receivers(ch) == {delivered[ch][k] : k \in 1..Len(delivered[ch])}

\* C6: during build() every subscriber registered on a channel receives that
\* channel's notifications, in registration order, and receives none of the
\* other channels'.
C6_SubscribersNotifiedDuringBuild ==
    last_call.op = "build" =>
        \A ch \in {"progress", "output", "error"} :
            /\ \A s \in Subscribers : <<ch, s>> \in subscribe_calls <=> s \in Receivers(ch)
            /\ delivered[ch] = (IF ch = "progress" THEN progress_subscribers
                                ELSE IF ch = "output" THEN output_subscribers
                                ELSE error_subscribers)

\* --- resolution
SearchedPairs ==
    {<<i, j>> : i \in 1..Len(find_exe_call.dirs), j \in 1..Len(service_call.exes)}
PairPath(p) == JoinPath(find_exe_call.dirs[p[1]], service_call.exes[p[2]])
Before(q, p) == q[1] < p[1] \/ (q[1] = p[1] /\ q[2] < p[2])

\* C7: for a non-empty candidates list, service() resolves to the first
\* (directory, candidate) pair, directories first and candidates within a
\* directory, whose joined path exists and is executable, and to nothing
\* when there is no such pair.
C7_ResolutionOrder ==
    (last_call.op = "service" /\ service_call.exes # <<>>) =>
        /\ find_exe_call.reached
        /\ IF \E p \in SearchedPairs : can_execute(PairPath(p))
           THEN /\ launch.launched
                /\ \E p \in SearchedPairs :
                       /\ can_execute(PairPath(p))
                       /\ \A q \in SearchedPairs : Before(q, p) => ~can_execute(PairPath(q))
                       /\ launch.args[1] = PairPath(p)
           ELSE ret = "ValueError" /\ ~launch.launched

C7_Witness ==
    /\ last_call.op = "service"
    /\ launch.launched
    /\ Len(find_exe_call.dirs) = 2
    /\ Len(service_call.exes) = 2
    /\ launch.args[1] = JoinPath(find_exe_call.dirs[1], service_call.exes[2])
    /\ can_execute(JoinPath(find_exe_call.dirs[2], service_call.exes[1]))

RECURSIVE Unsplit(_, _)
Unsplit(entries, sep) ==
    IF Len(entries) = 1 THEN entries[1]
    ELSE entries[1] \o <<sep>> \o Unsplit(Tail(entries), sep)

UnderBaseOnly(exes) ==
    /\ \A d \in 1..Len(find_exe_call.dirs) : Absolute(find_exe_call.dirs[d]) # env.base
    /\ \E j \in 1..Len(exes) : can_execute(JoinPath(env.base, exes[j]))
    /\ \A f \in fs : (\E j \in 1..Len(exes) : f[Len(f)] = exes[j])
                          => SubSeq(f, 1, Len(f) - 1) = env.base

\* C8: the directories service() searches are exactly [base] when
\* use_system_path is false, and exactly the PATH entries, split on the
\* separator and in PATH order, when it is true; base is then not searched,
\* and an executable present only under base is not found.
C8_SearchDirectories ==
    find_exe_call.reached =>
        LET dirs == find_exe_call.dirs
        IN  IF env.use_system_path
            THEN /\ Len(dirs) >= 1
                 /\ Unsplit(dirs, PathSep) = PATH
                 /\ \A d \in 1..Len(dirs) : \A k \in 1..Len(dirs[d]) : dirs[d][k] # PathSep
                 /\ UnderBaseOnly(service_call.exes) =>
                        (ret = "ValueError" /\ ~launch.launched)
            ELSE dirs = <<env.base>>

C8_Witness ==
    /\ last_call.op = "service"
    /\ env.use_system_path
    /\ find_exe_call.reached
    /\ Len(find_exe_call.dirs) = 2
    /\ UnderBaseOnly(service_call.exes)
    /\ ret = "ValueError"

\* C9: service() raises an error and hands nothing to the process launcher
\* when the candidates list is empty or nothing resolves; when it succeeds
\* the argument vector handed over is the resolved executable path followed
\* by the caller's arguments in the order given.
C9_ServiceFailureAndArgv ==
    last_call.op = "service" =>
        /\ (service_call.exes = <<>>
               \/ ~\E p \in SearchedPairs : can_execute(PairPath(p)))
              => (ret = "ValueError" /\ ~launch.launched)
        /\ ret = "Service" <=> launch.launched
        /\ launch.launched =>
              /\ Len(launch.args) = 1 + Len(service_call.args)
              /\ \E p \in SearchedPairs :
                     can_execute(PairPath(p)) /\ launch.args[1] = PairPath(p)
              /\ SubSeq(launch.args, 2, Len(launch.args)) = service_call.args
              /\ launch.cwd = env.base

C9_Witness ==
    /\ last_call.op = "service"
    /\ launch.launched
    /\ service_call.args = <<"-V", "-q">>
    /\ launch.args[3] = "-q"

\* --- classpath
GivenClassPath == IF java_call.class_path.some THEN java_call.class_path.v ELSE <<>>
GivenJvmArgs == IF java_call.jvm_args.some THEN java_call.jvm_args.v ELSE <<>>
FirstIndex(x) ==
    CHOOSE i \in 1..Len(GivenClassPath) :
        GivenClassPath[i] = x /\ \A j \in 1..(i - 1) : GivenClassPath[j] # x

\* C10: java() hands service() the arguments -cp, the classpath string, the
\* jvm_args in order, the main class; the classpath string lists each
\* distinct class_path element exactly once, in first-occurrence order,
\* separated by the path separator, and is empty (but still present) when
\* class_path is absent or empty.
C10_ClassPathDeduplicated ==
    last_call.op = "java" =>
        LET a == service_call.args
            cps == a[2]
            n == (Len(cps) + 1) \div 2
            El(k) == cps[2 * k - 1]
        IN  /\ Len(a) = 3 + Len(GivenJvmArgs)
            /\ a[1] = "-cp"
            /\ Len(cps) = (IF GivenClassPath = <<>> THEN 0 ELSE 2 * n - 1)
            /\ \A k \in 1..Len(cps) : (k % 2 = 0) <=> (cps[k] = PathSep)
            /\ {El(k) : k \in 1..n} = {GivenClassPath[i] : i \in 1..Len(GivenClassPath)}
            /\ \A k, l \in 1..n : k < l =>
                   (El(k) # El(l) /\ FirstIndex(El(k)) < FirstIndex(El(l)))
            /\ SubSeq(a, 3, Len(a) - 1) = GivenJvmArgs
            /\ a[Len(a)] = java_call.main_class
            /\ launch.launched => Tail(launch.args) = a

C10_Witness ==
    /\ last_call.op = "java"
    /\ java_call.class_path = SomeSeq(<<"a", "b", "a", "c">>)
    /\ service_call.args[2] = <<"a", PathSep, "b", PathSep, "c">>
    /\ launch.launched

====
